---- MODULE Spec2Model ----
(***************************************************************************)
(* Verification model of SpamGuard_Z: the EncryptedSpamFilter ledger       *)
(* (contracts/SpamGuard_Z.sol) and the client workflows that drive it      *)
(* (frontend/web/src/App.tsx).                                             *)
(*                                                                         *)
(* A transaction of the ledger is one atomic step: the EVM runs the        *)
(* transactions of a block one after the other and a revert undoes every   *)
(* write of the reverting call.  Concurrency is the order in which the     *)
(* steps of different callers reach the ledger.                            *)
(*                                                                         *)
(* The existence test of the contract is written                           *)
(*   bytes(emailRegistry[emailId].sender).length                           *)
(* on a field of type address; it is modelled as what it stands for, "a    *)
(* sender is stored for this id", i.e. sender differs from address(0).     *)
(***************************************************************************)
EXTENDS Integers, Sequences, FiniteSets, TLC

\* ------------------------------------------------------------------ bounds
MaxIds == 2
MaxAccounts == 2
MaxHandle == 2
MaxMeta == 1
MaxTime == 2
MaxClients == 2

\* ------------------------------------------------------- program constants
ZeroAddress == 0

\* ------------------------------------------------------------ value domains
Ids == 1..MaxIds
Accounts == 1..MaxAccounts
Handles == 1..MaxHandle
ExternalHandles == 0..MaxHandle
Metas == 1..MaxMeta
Clients == 1..MaxClients
Contexts == {"this", "other"}
Signers == {"kms", "forger"}

\* The cleartext a handle encrypts (the coprocessor's secret; the ledger never
\* reads it).  The score domain of the application is 0..100.
ScoreDomain == <<0, 57, 100>>
Plain(h) == ScoreDomain[((h - 1) % 3) + 1]

\* An inclusion proof binds a handle to the account that encrypted it and to
\* the contract (the encryption context) it was encrypted for.
InputProofs == [handle : ExternalHandles, user : Accounts, ctx : Contexts]

\* ABI-encoded cleartexts: a sequence of 32-byte words.  A word is kept as its
\* low 32 bits and a flag telling whether any of the 224 bits above them is set.
Word(n) == [upper |-> 0, low32 |-> n]
DirtyWord(n) == [upper |-> 1, low32 |-> n]
WellFormedBundles == {<<Word(f), Word(s)>> : <<f, s>> \in {0, 1} \X {0, 57}}
CleartextBundles ==
    WellFormedBundles \cup {<<Word(57)>>, <<Word(2), Word(57)>>, <<Word(1), DirtyWord(57)>>,
                            <<Word(1), Word(57), Word(100)>>}

\* The handle lists a disclosure proof can be signed for.
HandleLists ==
    {<<h>> : h \in Handles} \cup {<<h, h + 1>> : h \in 1..(MaxHandle - 1)}

\* A decryption proof: who signed, and over which handles and cleartext bytes.
DecryptionProofs == [signer : Signers, handles : HandleLists, data : CleartextBundles]

VARIABLES
    emailRegistry,   \* mapping(string => EmailData)
    emailIds,        \* string[]
    events,          \* the event log of the contract
    decryptable,     \* handles made publicly decryptable (the ACL)
    now,             \* block.timestamp
    lastCall,        \* receipt of the last state-changing call sent to the ledger
    disclosure,      \* per id, the calldata of the call that verified it (history)
    isConnected,     \* per client: the wallet is connected (useAccount)
    creatingEmail,   \* per client: busy flag of createEmail
    isDecrypting,    \* per client: busy flag of decryptData
    transactionStatus, \* per client: the status banner
    submit,          \* per client: the position and locals of createEmail
    disclose         \* per client: the position and locals of decryptData

chain == <<emailRegistry, emailIds, events, decryptable, now, lastCall, disclosure>>
client == <<isConnected, creatingEmail, isDecrypting, transactionStatus, submit, disclose>>
vars == <<chain, client>>
ledger == <<emailRegistry, emailIds, events, decryptable>>

\* ------------------------------------------------------------ the contract

NoDisclosure == [data |-> <<>>, proof |-> [signer |-> "none", handles |-> <<>>, data |-> <<>>]]

\* The zero value of struct EmailData: what the mapping holds for an unused key.
EmptyEmailData ==
    [encryptedContent |-> 0, publicMetadata |-> 0, sender |-> ZeroAddress,
     timestamp |-> 0, isSpam |-> FALSE, decryptedScore |-> 0, isVerified |-> FALSE]

\* The existence test shared by processEmail, verifySpamStatus and the reads.
Exists(emailId) == emailRegistry[emailId].sender # ZeroAddress

\* FHE.fromExternal: the inclusion proof must bind the handle to msg.sender and
\* to this contract.
fromExternalOk(caller, encryptedContent, contentProof) ==
    /\ contentProof.handle = encryptedContent
    /\ contentProof.user = caller
    /\ contentProof.ctx = "this"

\* FHE.isInitialized: the handle is not the zero handle.
isInitialized(h) == h # 0

\* Faulty variant: the duplicate check is missing.
processEmailOutcome_NoDuplicateCheck(caller, emailId, encryptedContent, contentProof) ==
    IF ~fromExternalOk(caller, encryptedContent, contentProof) THEN "InvalidInputProof"
    ELSE IF ~isInitialized(encryptedContent) THEN "Invalid encrypted content"
    ELSE "ok"

\* Faulty variant: the encrypted input is not checked.
processEmailOutcome_NoInputCheck(caller, emailId, encryptedContent, contentProof) ==
    IF Exists(emailId) THEN "Email already processed" ELSE "ok"

\* The checks of processEmail, in order: the revert reason, or "ok".
processEmailOutcome(caller, emailId, encryptedContent, contentProof) ==
    IF Exists(emailId) THEN "Email already processed"
    ELSE IF ~fromExternalOk(caller, encryptedContent, contentProof) THEN "InvalidInputProof"
    ELSE IF ~isInitialized(encryptedContent) THEN "Invalid encrypted content"
    ELSE "ok"

\* Faulty variant: the block time is not stored.
newEmailData_NoTimestamp(caller, encryptedContent, publicMetadata) ==
    [encryptedContent |-> encryptedContent,
     publicMetadata |-> publicMetadata,
     sender |-> caller,
     timestamp |-> 0,
     isSpam |-> FALSE,
     decryptedScore |-> 0,
     isVerified |-> FALSE]

\* Faulty variant: the sender is not stored.
newEmailData_NoSender(caller, encryptedContent, publicMetadata) ==
    [encryptedContent |-> encryptedContent,
     publicMetadata |-> publicMetadata,
     sender |-> ZeroAddress,
     timestamp |-> now,
     isSpam |-> FALSE,
     decryptedScore |-> 0,
     isVerified |-> FALSE]

\* The struct processEmail stores.
newEmailData(caller, encryptedContent, publicMetadata) ==
    [encryptedContent |-> encryptedContent,
     publicMetadata |-> publicMetadata,
     sender |-> caller,
     timestamp |-> now,
     isSpam |-> FALSE,
     decryptedScore |-> 0,
     isVerified |-> FALSE]

EmailProcessed(emailId, sender) ==
    [name |-> "EmailProcessed", emailId |-> emailId, sender |-> sender]

\* Faulty variant: the event does not carry the score.
SpamVerification_ScoreOmitted(emailId, isSpam, decryptedScore) ==
    [name |-> "SpamVerification", emailId |-> emailId, isSpam |-> isSpam,
     decryptedScore |-> 0]

SpamVerification(emailId, isSpam, decryptedScore) ==
    [name |-> "SpamVerification", emailId |-> emailId, isSpam |-> isSpam,
     decryptedScore |-> decryptedScore]

receipt(fn, emailId, result) == [fn |-> fn, emailId |-> emailId, result |-> result]

\* function processEmail(emailId, encryptedContent, contentProof, publicMetadata)
processEmail(caller, emailId, encryptedContent, contentProof, publicMetadata) ==
    LET outcome == processEmailOutcome(caller, emailId, encryptedContent, contentProof) IN
    /\ lastCall' = receipt("processEmail", emailId, outcome)
    /\ IF outcome = "ok"
       THEN /\ emailRegistry' = [emailRegistry EXCEPT
                    ![emailId] = newEmailData(caller, encryptedContent, publicMetadata)]
            /\ decryptable' = decryptable \cup {encryptedContent}
            /\ emailIds' = Append(emailIds, emailId)
            /\ events' = Append(events, EmailProcessed(emailId, caller))
       ELSE UNCHANGED ledger
    /\ UNCHANGED <<now, disclosure>>

\* FHE.toBytes32 followed by the one-element array cts.
ctsOf(emailId) == <<emailRegistry[emailId].encryptedContent>>

\* Faulty variant: the signature is not tied to the handle list.
checkSignatures_AnyHandles(cts, abiEncodedResult, verificationProof) ==
    /\ verificationProof.signer = "kms"
    /\ verificationProof.data = abiEncodedResult

\* FHE.checkSignatures: the proof is the decryption service's signature over
\* exactly these handles and exactly these cleartext bytes.
checkSignatures(cts, abiEncodedResult, verificationProof) ==
    /\ verificationProof.signer = "kms"
    /\ verificationProof.handles = cts
    /\ verificationProof.data = abiEncodedResult

\* abi.decode(abiEncodedResult, (bool, uint32)): two words are read, the first
\* must be 0 or 1 and the second must fit 32 bits; anything else reverts.
abiDecodable(abiEncodedResult) ==
    /\ Len(abiEncodedResult) >= 2
    /\ abiEncodedResult[1].upper = 0
    /\ abiEncodedResult[1].low32 \in {0, 1}
    /\ abiEncodedResult[2].upper = 0

abiDecode(abiEncodedResult) ==
    [isSpam |-> (abiEncodedResult[1].low32 = 1), score |-> abiEncodedResult[2].low32]

\* Faulty variant: the already-verified guard is missing.
verifySpamStatusOutcome_NoVerifiedCheck(emailId, abiEncodedResult, verificationProof) ==
    IF ~Exists(emailId) THEN "Email does not exist"
    ELSE IF ~checkSignatures(ctsOf(emailId), abiEncodedResult, verificationProof)
         THEN "InvalidKMSSignatures"
    ELSE IF ~abiDecodable(abiEncodedResult) THEN "abi.decode reverted"
    ELSE "ok"

\* Faulty variant: the signature check is missing.
verifySpamStatusOutcome_NoSignatureCheck(emailId, abiEncodedResult, verificationProof) ==
    IF ~Exists(emailId) THEN "Email does not exist"
    ELSE IF emailRegistry[emailId].isVerified THEN "Email already verified"
    ELSE IF ~abiDecodable(abiEncodedResult) THEN "abi.decode reverted"
    ELSE "ok"

\* Faulty variant: the existence guard is missing.
verifySpamStatusOutcome_NoExistCheck(emailId, abiEncodedResult, verificationProof) ==
    IF emailRegistry[emailId].isVerified THEN "Email already verified"
    ELSE IF ~checkSignatures(ctsOf(emailId), abiEncodedResult, verificationProof)
         THEN "InvalidKMSSignatures"
    ELSE IF ~abiDecodable(abiEncodedResult) THEN "abi.decode reverted"
    ELSE "ok"

\* The checks of verifySpamStatus, in order: the revert reason, or "ok".
verifySpamStatusOutcome(emailId, abiEncodedResult, verificationProof) ==
    IF ~Exists(emailId) THEN "Email does not exist"
    ELSE IF emailRegistry[emailId].isVerified THEN "Email already verified"
    ELSE IF ~checkSignatures(ctsOf(emailId), abiEncodedResult, verificationProof)
         THEN "InvalidKMSSignatures"
    ELSE IF ~abiDecodable(abiEncodedResult) THEN "abi.decode reverted"
    ELSE "ok"

\* Faulty variant: the score and the flag are written, isVerified is not.
verifiedEmailData_FlagNotSet(data, abiEncodedResult) ==
    [data EXCEPT !.isSpam = abiDecode(abiEncodedResult).isSpam,
                 !.decryptedScore = abiDecode(abiEncodedResult).score]

\* Faulty variant: the verification also rewrites the public metadata.
verifiedEmailData_ResetsMetadata(data, abiEncodedResult) ==
    [data EXCEPT !.isSpam = abiDecode(abiEncodedResult).isSpam,
                 !.decryptedScore = abiDecode(abiEncodedResult).score,
                 !.isVerified = TRUE,
                 !.publicMetadata = 0]

\* The three writes of verifySpamStatus.
verifiedEmailData(data, abiEncodedResult) ==
    [data EXCEPT !.isSpam = abiDecode(abiEncodedResult).isSpam,
                 !.decryptedScore = abiDecode(abiEncodedResult).score,
                 !.isVerified = TRUE]

\* Faulty variant: only the sender of the record may verify it.
verifySpamStatus_OnlySender(caller, emailId, abiEncodedResult, verificationProof) ==
    LET outcome ==
            IF Exists(emailId) /\ caller # emailRegistry[emailId].sender THEN "Not the sender"
            ELSE verifySpamStatusOutcome(emailId, abiEncodedResult, verificationProof)
    IN
    /\ lastCall' = receipt("verifySpamStatus", emailId, outcome)
    /\ IF outcome = "ok"
       THEN /\ emailRegistry' = [emailRegistry EXCEPT
                    ![emailId] = verifiedEmailData(emailRegistry[emailId], abiEncodedResult)]
            /\ events' = Append(events,
                    SpamVerification(emailId, abiDecode(abiEncodedResult).isSpam,
                                     abiDecode(abiEncodedResult).score))
            /\ disclosure' = [disclosure EXCEPT
                    ![emailId] = [data |-> abiEncodedResult, proof |-> verificationProof]]
            /\ UNCHANGED <<emailIds, decryptable>>
       ELSE UNCHANGED <<ledger, disclosure>>
    /\ UNCHANGED now

\* function verifySpamStatus(emailId, abiEncodedResult, verificationProof)
verifySpamStatus(caller, emailId, abiEncodedResult, verificationProof) ==
    LET outcome == verifySpamStatusOutcome(emailId, abiEncodedResult, verificationProof) IN
    /\ lastCall' = receipt("verifySpamStatus", emailId, outcome)
    /\ IF outcome = "ok"
       THEN /\ emailRegistry' = [emailRegistry EXCEPT
                    ![emailId] = verifiedEmailData(emailRegistry[emailId], abiEncodedResult)]
            /\ events' = Append(events,
                    SpamVerification(emailId, abiDecode(abiEncodedResult).isSpam,
                                     abiDecode(abiEncodedResult).score))
            /\ disclosure' = [disclosure EXCEPT
                    ![emailId] = [data |-> abiEncodedResult, proof |-> verificationProof]]
            /\ UNCHANGED <<emailIds, decryptable>>
       ELSE UNCHANGED <<ledger, disclosure>>
    /\ UNCHANGED now

\* The reads: a result, or the revert reason.
getEncryptedContent(emailId) ==
    IF ~Exists(emailId) THEN [ok |-> FALSE, error |-> "Email does not exist"]
    ELSE [ok |-> TRUE, value |-> emailRegistry[emailId].encryptedContent]

\* Faulty variant: the existence guard of the read is missing.
getEmailData_NoExistCheck(emailId) ==
    [ok |-> TRUE,
     publicMetadata |-> emailRegistry[emailId].publicMetadata,
     sender |-> emailRegistry[emailId].sender,
     timestamp |-> emailRegistry[emailId].timestamp,
     isSpam |-> emailRegistry[emailId].isSpam,
     decryptedScore |-> emailRegistry[emailId].decryptedScore,
     isVerified |-> emailRegistry[emailId].isVerified]

getEmailData(emailId) ==
    IF ~Exists(emailId) THEN [ok |-> FALSE, error |-> "Email does not exist"]
    ELSE [ok |-> TRUE,
          publicMetadata |-> emailRegistry[emailId].publicMetadata,
          sender |-> emailRegistry[emailId].sender,
          timestamp |-> emailRegistry[emailId].timestamp,
          isSpam |-> emailRegistry[emailId].isSpam,
          decryptedScore |-> emailRegistry[emailId].decryptedScore,
          isVerified |-> emailRegistry[emailId].isVerified]

\* Faulty variant: the list is returned newest first.
getAllEmailIds_NewestFirst ==
    [i \in 1..Len(emailIds) |-> emailIds[Len(emailIds) + 1 - i]]

getAllEmailIds == emailIds

serviceStatus == TRUE

\* ---------------------------------------------------------- the environment

\* The decryption service signs only for handles that were made publicly
\* decryptable; anybody can fabricate a proof that it did not sign.
ProofAvailable(p) ==
    p.signer = "kms" => \A i \in 1..Len(p.handles) : p.handles[i] \in decryptable

\* A transaction from any account calling processEmail.
SendProcessEmail ==
    \E caller \in Accounts, emailId \in Ids, h \in ExternalHandles, meta \in Metas :
        \E proof \in {p \in InputProofs : p.handle \in {h, 1}} :
            processEmail(caller, emailId, h, proof, meta) /\ UNCHANGED client

\* A transaction from any account calling verifySpamStatus.
SendVerifySpamStatus ==
    \E caller \in Accounts, emailId \in Ids, data \in CleartextBundles :
        \E proof \in {p \in DecryptionProofs :
                        \/ p.data = data
                        \/ p.signer = "kms" /\ p.data = <<Word(0), Word(0)>>} :
            /\ ProofAvailable(proof)
            /\ verifySpamStatus(caller, emailId, data, proof)
            /\ UNCHANGED client

\* A later block: block.timestamp grows.
Tick ==
    /\ now < MaxTime
    /\ now' = now + 1
    /\ UNCHANGED <<ledger, lastCall, disclosure, client>>

\* -------------------------------------------------- the contract's interface

\* The external functions of EncryptedSpamFilter, by name and number of
\* arguments (the public state variables have getters).  The contract has no
\* fallback function: a call of any other function fails.
ContractAbi ==
    {<<"processEmail", 4>>, <<"verifySpamStatus", 3>>, <<"getEncryptedContent", 1>>,
     <<"getEmailData", 1>>, <<"getAllEmailIds", 0>>, <<"serviceStatus", 0>>,
     <<"emailRegistry", 1>>, <<"emailIds", 1>>}

exposes(fn, args) == <<fn, Len(args)>> \in ContractAbi

\* A transaction calling function fn of the contract.
transact(caller, fn, args) ==
    IF fn = "processEmail" /\ Len(args) = 4
    THEN processEmail(caller, args[1], args[2], args[3], args[4])
    ELSE IF fn = "verifySpamStatus" /\ Len(args) = 3
    THEN verifySpamStatus(caller, args[1], args[2], args[3])
    ELSE /\ lastCall' = receipt(fn, 0, "no such function")
         /\ UNCHANGED <<ledger, now, disclosure>>

\* A read-only call of function fn of the contract.
staticCall(fn, args) ==
    IF fn = "getEmailData" /\ Len(args) = 1 THEN getEmailData(args[1])
    ELSE IF fn = "getEncryptedContent" /\ Len(args) = 1 THEN getEncryptedContent(args[1])
    ELSE IF fn = "getAllEmailIds" /\ Len(args) = 0 THEN [ok |-> TRUE, value |-> getAllEmailIds]
    ELSE IF fn = "serviceStatus" /\ Len(args) = 0 THEN [ok |-> TRUE, value |-> serviceStatus]
    ELSE [ok |-> FALSE, error |-> "no such function"]

\* ------------------------------------------------------------- the client

Null == -1

\* The account of a client's wallet.
address(c) == ((c - 1) % MaxAccounts) + 1

\* The banner: a message and, after a failure, the text of the error.
Status(kind, message, detail) == [status |-> kind, message |-> message, detail |-> detail]
HiddenStatus == [status |-> "pending", message |-> "", detail |-> ""]

IdleSubmit == [pc |-> "Idle", id |-> 0, handle |-> 0, invoked |-> FALSE, error |-> "none"]
IdleDisclose ==
    [pc |-> "Idle", id |-> 0, handle |-> 0, startedUnverified |-> FALSE,
     returned |-> Null, error |-> "none"]

\* What the gateway returns for a handle encrypted by a client for the contract.
encryptedResult(c, h) ==
    [encryptedData |-> h, proof |-> [handle |-> h, user |-> address(c), ctx |-> "this"]]

\* Faulty variant: the catch block reports success.
createEmailFailed_ReportsSuccess(c, message) ==
    /\ submit' = [submit EXCEPT ![c].pc = "Committed", ![c].error = message]
    /\ transactionStatus' = [transactionStatus EXCEPT
            ![c] = Status("success", "Email created successfully!", "")]
    /\ creatingEmail' = [creatingEmail EXCEPT ![c] = FALSE]

\* The catch and finally blocks of createEmail.
createEmailFailed(c, message) ==
    /\ submit' = [submit EXCEPT ![c].pc = "Failed", ![c].error = message]
    /\ transactionStatus' = [transactionStatus EXCEPT ![c] =
            IF message = "user rejected transaction"
            THEN Status("error", "Transaction rejected by user", "")
            ELSE Status("error", "Submission failed: ", message)]
    /\ creatingEmail' = [creatingEmail EXCEPT ![c] = FALSE]

\* const createEmail = async () => { ... }: one step per await.
createEmail(c) ==
    /\ UNCHANGED <<isConnected, isDecrypting, disclose>>
    /\ CASE submit[c].pc \in {"Idle", "Committed", "Failed"} ->
              \* the wallet guard, setCreatingEmail(true), the pending banner
              /\ UNCHANGED chain
              /\ IF ~isConnected[c]
                 THEN /\ transactionStatus' = [transactionStatus EXCEPT
                            ![c] = Status("error", "Please connect wallet first", "")]
                      /\ UNCHANGED <<creatingEmail, submit>>
                 ELSE /\ creatingEmail' = [creatingEmail EXCEPT ![c] = TRUE]
                      /\ transactionStatus' = [transactionStatus EXCEPT
                            ![c] = Status("pending", "Creating email with FHE encryption...", "")]
                      /\ submit' = [submit EXCEPT ![c] = [IdleSubmit EXCEPT !.pc = "Started"]]
         [] submit[c].pc = "Started" ->
              \* await getContractWithSigner(); the id is `email-${Date.now()}`
              /\ UNCHANGED chain
              /\ \E got \in BOOLEAN :
                    IF got
                    THEN /\ \E id \in Ids :
                              submit' = [submit EXCEPT ![c].pc = "Encrypting", ![c].id = id]
                         /\ UNCHANGED <<creatingEmail, transactionStatus>>
                    ELSE createEmailFailed(c, "Failed to get contract with signer")
         [] submit[c].pc = "Encrypting" ->
              \* await encrypt(contractAddress, address, spamScoreValue)
              /\ UNCHANGED chain
              /\ \/ /\ \E h \in Handles :
                          submit' = [submit EXCEPT ![c].pc = "Submitting", ![c].handle = h]
                    /\ UNCHANGED <<creatingEmail, transactionStatus>>
                 \/ createEmailFailed(c, "encryption failed")
         [] submit[c].pc = "Submitting" ->
              \* await contract.createBusinessData(businessId, subject, encryptedData,
              \*                                   proof, random, 0, sender)
              LET enc == encryptedResult(c, submit[c].handle)
                  args == <<submit[c].id, "subject", enc.encryptedData, enc.proof, 1, 0, "sender">>
              IN  IF ~exposes("createBusinessData", args)
                  THEN /\ UNCHANGED chain
                       /\ submit' = [submit EXCEPT ![c].pc = "Failed", ![c].invoked = TRUE,
                                                   ![c].error = "no such function"]
                       /\ transactionStatus' = [transactionStatus EXCEPT
                              ![c] = Status("error", "Submission failed: ", "no such function")]
                       /\ creatingEmail' = [creatingEmail EXCEPT ![c] = FALSE]
                  ELSE \/ /\ UNCHANGED chain
                          /\ createEmailFailed(c, "user rejected transaction")
                       \/ /\ transact(address(c), "createBusinessData", args)
                          /\ IF lastCall'.result = "ok"
                             THEN /\ submit' = [submit EXCEPT ![c].pc = "Confirming",
                                                               ![c].invoked = TRUE]
                                  /\ transactionStatus' = [transactionStatus EXCEPT ![c] =
                                        Status("pending", "Waiting for transaction confirmation...", "")]
                                  /\ UNCHANGED creatingEmail
                             ELSE /\ submit' = [submit EXCEPT ![c].pc = "Failed",
                                                  ![c].invoked = TRUE,
                                                  ![c].error = lastCall'.result]
                                  /\ transactionStatus' = [transactionStatus EXCEPT
                                        ![c] = Status("error", "Submission failed: ", lastCall'.result)]
                                  /\ creatingEmail' = [creatingEmail EXCEPT ![c] = FALSE]
         [] submit[c].pc = "Confirming" ->
              \* await tx.wait(); the success banner; finally
              /\ UNCHANGED chain
              /\ submit' = [submit EXCEPT ![c].pc = "Committed"]
              /\ transactionStatus' = [transactionStatus EXCEPT
                    ![c] = Status("success", "Email created successfully!", "")]
              /\ creatingEmail' = [creatingEmail EXCEPT ![c] = FALSE]

\* Faulty variant: the finally block is missing.
decryptDataFailed_FlagLeftSet(c, message) ==
    /\ disclose' = [disclose EXCEPT ![c].pc = "Failed", ![c].error = message,
                                    ![c].returned = Null]
    /\ transactionStatus' = [transactionStatus EXCEPT ![c] =
            IF message = "Data already verified"
            THEN Status("success", "Data is already verified on-chain", "")
            ELSE Status("error", "Decryption failed: ", message)]
    /\ UNCHANGED isDecrypting

\* The catch and finally blocks of decryptData.
decryptDataFailed(c, message) ==
    /\ disclose' = [disclose EXCEPT ![c].pc = "Failed", ![c].error = message,
                                    ![c].returned = Null]
    /\ transactionStatus' = [transactionStatus EXCEPT ![c] =
            IF message = "Data already verified"
            THEN Status("success", "Data is already verified on-chain", "")
            ELSE Status("error", "Decryption failed: ", message)]
    /\ isDecrypting' = [isDecrypting EXCEPT ![c] = FALSE]

\* return null inside the try block of decryptData, and its finally block.
returnNull(c) ==
    /\ disclose' = [disclose EXCEPT ![c].pc = "Failed", ![c].error = "no contract",
                                    ![c].returned = Null]
    /\ isDecrypting' = [isDecrypting EXCEPT ![c] = FALSE]
    /\ UNCHANGED transactionStatus

\* A field of a result object, Number(x) || 0.
NumberOr0(result, field) ==
    IF field \in DOMAIN result THEN result[field] ELSE 0

\* const decryptData = async (businessId) => { ... }: one step per await.
decryptData(c, businessId) ==
    /\ UNCHANGED <<isConnected, creatingEmail, submit>>
    /\ disclose[c].pc \in {"Idle", "Committed", "Failed"} \/ disclose[c].id = businessId
    /\ CASE disclose[c].pc \in {"Idle", "Committed", "Failed"} ->
              \* the wallet guard, setIsDecrypting(true)
              /\ UNCHANGED chain
              /\ IF ~isConnected[c]
                 THEN /\ transactionStatus' = [transactionStatus EXCEPT
                            ![c] = Status("error", "Please connect wallet first", "")]
                      /\ disclose' = [disclose EXCEPT ![c].returned = Null]
                      /\ UNCHANGED isDecrypting
                 ELSE /\ isDecrypting' = [isDecrypting EXCEPT ![c] = TRUE]
                      /\ disclose' = [disclose EXCEPT ![c] =
                            [IdleDisclose EXCEPT
                                !.pc = "FetchingRecord", !.id = businessId,
                                !.startedUnverified =
                                    (Exists(businessId) /\ ~emailRegistry[businessId].isVerified)]]
                      /\ UNCHANGED transactionStatus
         [] disclose[c].pc = "FetchingRecord" /\ disclose[c].id = businessId ->
              \* await contractRead.getBusinessData(businessId); the fast path
              \* (getContractReadOnly() may give no contract: return null)
              LET businessData == staticCall("getBusinessData", <<businessId>>) IN
              /\ UNCHANGED chain
              /\ \E contractRead \in BOOLEAN :
                 IF ~contractRead THEN returnNull(c)
                 ELSE IF ~businessData.ok THEN decryptDataFailed(c, businessData.error)
                 ELSE IF businessData.isVerified
                 THEN /\ disclose' = [disclose EXCEPT ![c].pc = "Committed",
                            ![c].returned = NumberOr0(businessData, "decryptedValue")]
                      /\ transactionStatus' = [transactionStatus EXCEPT
                            ![c] = Status("success", "Data already verified on-chain", "")]
                      /\ isDecrypting' = [isDecrypting EXCEPT ![c] = FALSE]
                 ELSE /\ disclose' = [disclose EXCEPT ![c].pc = "FetchingHandle"]
                      /\ UNCHANGED <<transactionStatus, isDecrypting>>
         [] disclose[c].pc = "FetchingHandle" /\ disclose[c].id = businessId ->
              \* await contractRead.getEncryptedValue(businessId)
              \* (getContractWithSigner() may give no contract: return null)
              LET encryptedValueHandle == staticCall("getEncryptedValue", <<businessId>>) IN
              /\ UNCHANGED chain
              /\ \E contractWrite \in BOOLEAN :
                 IF ~contractWrite THEN returnNull(c)
                 ELSE IF ~encryptedValueHandle.ok
                 THEN decryptDataFailed(c, encryptedValueHandle.error)
                 ELSE /\ disclose' = [disclose EXCEPT ![c].pc = "AwaitingExternalProof",
                                          ![c].handle = encryptedValueHandle.value]
                      /\ UNCHANGED <<transactionStatus, isDecrypting>>
         [] disclose[c].pc = "AwaitingExternalProof" /\ disclose[c].id = businessId ->
              \* await verifyDecryption([handle], contractAddress, callback): the service
              \* discloses the handle and the callback submits the proof on-chain
              LET h == disclose[c].handle
                  abiEncodedClearValues == <<Word(Plain(h))>>
                  decryptionProof == [signer |-> "kms", handles |-> <<h>>,
                                      data |-> abiEncodedClearValues]
                  args == <<businessId, abiEncodedClearValues, decryptionProof>>
              IN  \/ /\ UNCHANGED chain
                     /\ decryptDataFailed(c, "decryption request failed")
                  \/ /\ h \in decryptable
                     /\ IF ~exposes("verifyDecryption", args)
                        THEN UNCHANGED chain /\ decryptDataFailed(c, "no such function")
                        ELSE /\ transact(address(c), "verifyDecryption", args)
                             /\ IF lastCall'.result = "ok"
                                THEN /\ disclose' = [disclose EXCEPT ![c].pc = "Committed",
                                            ![c].returned = Plain(h)]
                                     /\ transactionStatus' = [transactionStatus EXCEPT ![c] =
                                            Status("success",
                                                   "Data decrypted and verified successfully!", "")]
                                     /\ isDecrypting' = [isDecrypting EXCEPT ![c] = FALSE]
                                ELSE decryptDataFailed(c, lastCall'.result)

\* The wallet of a client connects (the ConnectButton).
connectWallet(c) ==
    /\ ~isConnected[c]
    /\ isConnected' = [isConnected EXCEPT ![c] = TRUE]
    /\ UNCHANGED <<chain, creatingEmail, isDecrypting, transactionStatus, submit, disclose>>

\* The account that uses the contract directly, without the client.
DirectAccount == MaxAccounts

\* A direct processEmail call, with an input the account encrypted itself for
\* this contract.
directProcessEmail ==
    \E emailId \in Ids, h \in Handles :
        /\ processEmail(DirectAccount, emailId, h,
                        [handle |-> h, user |-> DirectAccount, ctx |-> "this"], 1)
        /\ UNCHANGED client

\* A direct verifySpamStatus call with a signed, well-formed disclosure for
\* the record's handle.
directVerifySpamStatus ==
    \E emailId \in Ids, data \in {<<Word(1), Word(57)>>} :
        /\ Exists(emailId)
        /\ verifySpamStatus(DirectAccount, emailId, data,
                [signer |-> "kms", handles |-> <<emailRegistry[emailId].encryptedContent>>,
                 data |-> data])
        /\ UNCHANGED client

Init ==
    /\ emailRegistry = [i \in Ids |-> EmptyEmailData]
    /\ emailIds = <<>>
    /\ events = <<>>
    /\ decryptable = {}
    /\ now = 1
    /\ lastCall = receipt("none", 0, "none")
    /\ disclosure = [i \in Ids |-> NoDisclosure]
    /\ isConnected = [c \in Clients |-> FALSE]
    /\ creatingEmail = [c \in Clients |-> FALSE]
    /\ isDecrypting = [c \in Clients |-> FALSE]
    /\ transactionStatus = [c \in Clients |-> HiddenStatus]
    /\ submit = [c \in Clients |-> IdleSubmit]
    /\ disclose = [c \in Clients |-> IdleDisclose]

\* The ledger under transactions from any account.
Next ==
    \/ SendProcessEmail
    \/ SendVerifySpamStatus
    \/ Tick

Spec == Init /\ [][Next]_vars

\* The submit workflow of the clients, beside accounts that use the contract
\* directly.
SubmitNext ==
    \/ \E c \in Clients : createEmail(c)
    \/ \E c \in Clients : connectWallet(c)
    \/ directProcessEmail

SubmitSpec == Init /\ [][SubmitNext]_vars

\* The disclose workflow of the clients, beside accounts that use the contract
\* directly.
DiscloseNext ==
    \/ \E c \in Clients, id \in Ids : decryptData(c, id)
    \/ \E c \in Clients : connectWallet(c)
    \/ directProcessEmail
    \/ directVerifySpamStatus

DiscloseSpec == Init /\ [][DiscloseNext]_vars

\* Both workflows of the clients, with no other traffic on the ledger.
WorkflowNext ==
    \/ \E c \in Clients : createEmail(c)
    \/ \E c \in Clients, id \in Ids : decryptData(c, id)
    \/ \E c \in Clients : connectWallet(c)

WorkflowSpec == Init /\ [][WorkflowNext]_vars

\* ------------------------------------------------------------------ claims

\* A step that is a call to the ledger: its receipt is lastCall'.
CallStep == ~(UNCHANGED <<ledger, lastCall>>)
CallTo(fn, emailId) ==
    CallStep /\ lastCall'.fn = fn /\ lastCall'.emailId = emailId

EventsOf(name, emailId) ==
    {i \in 1..Len(events) : events[i].name = name /\ events[i].emailId = emailId}

\* C1: a verified record holds the flag and the score decoded from the bundle of
\* the call that verified it, and that bundle carried the decryption service's
\* signature over exactly the record's stored handle and exactly those bytes;
\* an unverified record holds no flag, no score and no disclosure.
C1_NeverAcceptsWithoutProof ==
    \A id \in Ids :
        LET r == emailRegistry[id]
            d == disclosure[id]
        IN  IF r.isVerified
            THEN /\ d.proof.signer = "kms"
                 /\ d.proof.handles = <<r.encryptedContent>>
                 /\ d.proof.data = d.data
                 /\ Len(d.data) >= 2
                 /\ r.isSpam = (d.data[1].low32 = 1)
                 /\ r.decryptedScore = d.data[2].low32
            ELSE /\ r.isSpam = FALSE
                 /\ r.decryptedScore = 0
                 /\ d = NoDisclosure

C1_Witness ==
    \E id \in Ids :
        /\ emailRegistry[id].isVerified
        /\ emailRegistry[id].isSpam
        /\ emailRegistry[id].decryptedScore = 57
        /\ \E other \in Ids : other # id /\ Exists(other)
                /\ emailRegistry[other].encryptedContent # emailRegistry[id].encryptedContent

\* C2: a processEmail call for an id that already has a record fails with
\* "Email already processed" and leaves every record, the id list, the event
\* log and the ACL exactly as they were.
C2_DuplicateCreationFails ==
    [][\A id \in Ids :
        (Exists(id) /\ CallTo("processEmail", id))
            => (lastCall'.result = "Email already processed" /\ UNCHANGED ledger)]_vars

C2_Witness ==
    /\ lastCall.fn = "processEmail"
    /\ lastCall.result = "Email already processed"
    /\ emailRegistry[lastCall.emailId].isVerified
    /\ Len(emailIds) = 2

\* C3: when the createEmail workflows of two clients have both sent their create
\* for the same id and both have ended, exactly one of them committed and the
\* other failed with "Email already processed".
C3_ConcurrentSubmitExactlyOne ==
    \A c1, c2 \in Clients :
        ( /\ c1 # c2
          /\ submit[c1].invoked /\ submit[c2].invoked
          /\ submit[c1].id = submit[c2].id
          /\ submit[c1].pc \in {"Committed", "Failed"}
          /\ submit[c2].pc \in {"Committed", "Failed"} )
        => \/ /\ submit[c1].pc = "Committed"
              /\ submit[c2].pc = "Failed"
              /\ submit[c2].error = "Email already processed"
           \/ /\ submit[c2].pc = "Committed"
              /\ submit[c1].pc = "Failed"
              /\ submit[c1].error = "Email already processed"

\* C4: once isVerified is true it stays true and the flag and the score never
\* change again; at most one verification was committed per id (one
\* SpamVerification event), and exactly one for a verified record.
C4_VerifiedIsMonotonic ==
    /\ [][\A id \in Ids :
            emailRegistry[id].isVerified
                => /\ emailRegistry'[id].isVerified
                   /\ emailRegistry'[id].decryptedScore = emailRegistry[id].decryptedScore
                   /\ emailRegistry'[id].isSpam = emailRegistry[id].isSpam]_vars
    /\ [](\A id \in Ids :
            Cardinality(EventsOf("SpamVerification", id))
                = (IF emailRegistry[id].isVerified THEN 1 ELSE 0))

C4_Witness ==
    /\ lastCall.fn = "verifySpamStatus"
    /\ lastCall.result = "Email already verified"
    /\ emailRegistry[lastCall.emailId].isVerified
    /\ emailRegistry[lastCall.emailId].decryptedScore = 57

\* C5: the three fields change together or not at all: a step that changes
\* isVerified, isSpam or decryptedScore of a record takes them from
\* (false, false, 0) to (true, f, v) at once and logs SpamVerification(id, f, v)
\* in the same step; a verifySpamStatus call that fails writes nothing.
C5_VerificationIsAtomic ==
    [][/\ \A id \in Ids :
            LET r == emailRegistry[id]
                q == emailRegistry'[id]
            IN  (Exists(id) /\ <<q.isVerified, q.isSpam, q.decryptedScore>>
                                # <<r.isVerified, r.isSpam, r.decryptedScore>>)
                    => /\ <<r.isVerified, r.isSpam, r.decryptedScore>> = <<FALSE, FALSE, 0>>
                       /\ q.isVerified
                       /\ events' = Append(events,
                                SpamVerification(id, q.isSpam, q.decryptedScore))
                       /\ lastCall' = receipt("verifySpamStatus", id, "ok")
       /\ (CallStep /\ lastCall'.fn = "verifySpamStatus" /\ lastCall'.result # "ok")
            => UNCHANGED ledger]_vars

C5_Witness ==
    \E id \in Ids :
        /\ emailRegistry[id].isVerified
        /\ ~emailRegistry[id].isSpam
        /\ emailRegistry[id].decryptedScore = 57
        /\ lastCall = receipt("verifySpamStatus", id, "ok")

\* The bundle is wrongly signed for the record: it does not carry the
\* decryption service's signature over the record's handle and these bytes.
WronglySigned(emailId, data, proof) ==
    ~(/\ proof.signer = "kms"
      /\ proof.handles = <<emailRegistry[emailId].encryptedContent>>
      /\ proof.data = data)

\* The disclosure the decryption service signs for the record's handle.
SignedFor(emailId, data) ==
    [signer |-> "kms", handles |-> <<emailRegistry[emailId].encryptedContent>>,
     data |-> data]

C7_IdempotentDisclosure ==
    \A id \in Ids :
        emailRegistry[id].isVerified
            => verifySpamStatusOutcome(id, disclosure[id].data, disclosure[id].proof) = "ok"

\* C8: when the decryptData workflows of two clients were both started for the
\* same record while it was unverified, and both have ended without a failure
\* of the wallet provider or of the decryption service, the record is verified and exactly one
\* SpamVerification event was emitted for it.
C8_ConcurrentDiscloseExactlyOne ==
    \A c1, c2 \in Clients :
        ( /\ c1 # c2
          /\ disclose[c1].id = disclose[c2].id
          /\ disclose[c1].startedUnverified /\ disclose[c2].startedUnverified
          /\ disclose[c1].pc \in {"Committed", "Failed"}
          /\ disclose[c2].pc \in {"Committed", "Failed"}
          /\ disclose[c1].error \notin {"no contract", "decryption request failed"}
          /\ disclose[c2].error \notin {"no contract", "decryption request failed"} )
        => /\ emailRegistry[disclose[c1].id].isVerified
           /\ Cardinality(EventsOf("SpamVerification", disclose[c1].id)) = 1

\* C9: verifySpamStatus for an id without a record fails with "Email does not
\* exist", for a verified record with "Email already verified"; in both cases
\* the records, the id list, the event log and the ACL are unchanged.
C9_LedgerRejectsAbsentAndVerified ==
    [][\A id \in Ids :
        CallTo("verifySpamStatus", id)
            => /\ ~Exists(id)
                    => (lastCall'.result = "Email does not exist" /\ UNCHANGED ledger)
               /\ (Exists(id) /\ emailRegistry[id].isVerified)
                    => (lastCall'.result = "Email already verified" /\ UNCHANGED ledger)
               /\ lastCall'.result = "Email does not exist" => ~Exists(id)
               /\ lastCall'.result = "Email already verified" => emailRegistry[id].isVerified]_vars

C9_Witness ==
    /\ lastCall.fn = "verifySpamStatus"
    /\ lastCall.result = "Email does not exist"
    /\ ~Exists(lastCall.emailId)
    /\ \E id \in Ids : emailRegistry[id].isVerified

\* C10: right after a successful processEmail(id, h, proof, meta) by caller,
\* getEmailData(id) returns isVerified = false, meta, caller as sender and the
\* block time of the call, and getEncryptedContent(id) returns h.
C10_CreateThenRead ==
    [][\A id \in Ids :
        (~Exists(id) /\ CallTo("processEmail", id) /\ lastCall'.result = "ok")
            => \A caller \in Accounts, h \in ExternalHandles, proof \in InputProofs,
                  meta \in Metas :
                    processEmail(caller, id, h, proof, meta)
                        => /\ getEmailData(id)' =
                                [ok |-> TRUE, publicMetadata |-> meta, sender |-> caller,
                                 timestamp |-> now, isSpam |-> FALSE,
                                 decryptedScore |-> 0, isVerified |-> FALSE]
                           /\ getEncryptedContent(id)' = [ok |-> TRUE, value |-> h]]_vars

C10_Witness ==
    /\ lastCall.fn = "processEmail"
    /\ lastCall.result = "ok"
    /\ getEmailData(lastCall.emailId).ok
    /\ getEmailData(lastCall.emailId).sender = 2
    /\ getEmailData(lastCall.emailId).timestamp = 2
    /\ getEncryptedContent(lastCall.emailId).value = 2

\* C11: the fields written at creation never change afterwards: in every step,
\* a record that exists keeps its encryptedContent, publicMetadata, sender and
\* timestamp, whether the step is a successful or failed verifySpamStatus, a
\* failed duplicate processEmail, or anything else.
C11_CreationFieldsImmutable ==
    [][\A id \in Ids :
        Exists(id)
            => /\ emailRegistry'[id].encryptedContent = emailRegistry[id].encryptedContent
               /\ emailRegistry'[id].publicMetadata = emailRegistry[id].publicMetadata
               /\ emailRegistry'[id].sender = emailRegistry[id].sender
               /\ emailRegistry'[id].timestamp = emailRegistry[id].timestamp]_vars

C11_Witness ==
    \E id \in Ids :
        /\ lastCall = receipt("verifySpamStatus", id, "ok")
        /\ emailRegistry[id].isVerified
        /\ emailRegistry[id].timestamp = 1
        /\ now = 2
        /\ emailRegistry[id].sender = 2
        /\ emailRegistry[id].encryptedContent = 2
        /\ emailRegistry[id].publicMetadata = 1

IsCreation(e) == e.name = "EmailProcessed"

\* The ids of the successful processEmail calls, in the order they committed.
CreatedInOrder ==
    LET created == SelectSeq(events, IsCreation)
    IN  [i \in 1..Len(created) |-> created[i].emailId]

\* C12: getAllEmailIds returns the ids of the successful processEmail calls in
\* the order they committed, each once; a step either leaves the list as it is
\* or is a successful processEmail(id) that appends id at the end, so every
\* earlier result is a prefix of every later one, and no verifySpamStatus call
\* changes the list.
C12_IdListAppendOnly ==
    /\ [](/\ getAllEmailIds = CreatedInOrder
          /\ \A i, j \in 1..Len(getAllEmailIds) :
                getAllEmailIds[i] = getAllEmailIds[j] => i = j
          /\ \A id \in Ids :
                Exists(id) <=> \E i \in 1..Len(getAllEmailIds) : getAllEmailIds[i] = id)
    /\ [][\/ /\ getAllEmailIds' = getAllEmailIds
              /\ ~(CallStep /\ lastCall'.fn = "processEmail" /\ lastCall'.result = "ok")
           \/ /\ CallStep
              /\ lastCall'.fn = "processEmail"
              /\ lastCall'.result = "ok"
              /\ getAllEmailIds' = Append(getAllEmailIds, lastCall'.emailId)]_vars

C12_Witness ==
    /\ getAllEmailIds = <<2, 1>>
    /\ lastCall.fn = "verifySpamStatus"
    /\ emailRegistry[2].isVerified
    /\ emailRegistry[1].timestamp > emailRegistry[2].timestamp

\* The decryptData run of client c has ended, was started on a record that
\* existed and was unverified, and did not fail for a reason outside the
\* program (no wallet provider, decryption service down).
EndedOnUnverified(c) ==
    /\ disclose[c].pc \in {"Committed", "Failed"}
    /\ disclose[c].startedUnverified
    /\ disclose[c].error \notin {"no contract", "decryption request failed"}

\* C13: round trip.  When decryptData has run to its end on a record created
\* with the handle of encrypt(x), the record is verified, its decryptedScore is
\* x, and the value decryptData returned is x.
C13_RoundTrip ==
    \A c \in Clients :
        EndedOnUnverified(c)
            => LET r == emailRegistry[disclose[c].id]
               IN  /\ r.isVerified
                   /\ r.decryptedScore = Plain(r.encryptedContent)
                   /\ disclose[c].returned = Plain(r.encryptedContent)

\* C14: for a record that is not verified, the flag and the score a reader
\* obtains from getEmailData are absent: they differ from every (flag, score)
\* a disclosure could commit, (false, 0) included.
C14_AbsentUntilVerified ==
    \A id \in Ids :
        (Exists(id) /\ ~emailRegistry[id].isVerified)
            => \A data \in WellFormedBundles :
                    <<getEmailData(id).isSpam, getEmailData(id).decryptedScore>>
                        # <<abiDecode(data).isSpam, abiDecode(data).score>>

\* C15: the flag is a function of the score: two verified records with the
\* same decryptedScore have the same isSpam.
C15_FlagDerivedFromScore ==
    \A id1, id2 \in Ids :
        ( /\ emailRegistry[id1].isVerified
          /\ emailRegistry[id2].isVerified
          /\ emailRegistry[id1].decryptedScore = emailRegistry[id2].decryptedScore )
        => emailRegistry[id1].isSpam = emailRegistry[id2].isSpam

\* C16: on an unverified record, a bundle signed by the decryption service for
\* a handle list other than the record's single stored handle (another handle,
\* more handles) is rejected, and with a failure other than the one a bundle
\* with an invalid signature gets.
C16_HandleMismatchIsDistinct ==
    \A id \in Ids :
        (Exists(id) /\ ~emailRegistry[id].isVerified)
            => \A data \in WellFormedBundles, hs \in HandleLists :
                    hs # ctsOf(id)
                        => LET mismatch == verifySpamStatusOutcome(id, data,
                                    [signer |-> "kms", handles |-> hs, data |-> data])
                               invalid == verifySpamStatusOutcome(id, data,
                                    [signer |-> "forger", handles |-> ctsOf(id), data |-> data])
                           IN  mismatch # "ok" /\ mismatch # invalid

\* The bytes are the encoding of exactly one bool and one uint32.
IsBoolAndUint32(data) ==
    /\ Len(data) = 2
    /\ data[1] \in {Word(0), Word(1)}
    /\ data[2].upper = 0

\* C17: on an unverified record, a bundle that carries the decryption
\* service's signature for the stored handle but whose bytes are not of the
\* expected shape (a value too wide, too few or too many values) is rejected
\* by the decoding step, not by the signature check.
C17_MalformedCleartextRejected ==
    \A id \in Ids :
        (Exists(id) /\ ~emailRegistry[id].isVerified)
            => \A data \in CleartextBundles :
                    ~IsBoolAndUint32(data)
                        => verifySpamStatusOutcome(id, data, SignedFor(id, data))
                                = "abi.decode reverted"

\* A successful processEmail created the id.
WasCreated(id) == \E i \in 1..Len(events) : events[i] \in {EmailProcessed(id, a) : a \in Accounts}

\* C18: getEmailData and getEncryptedContent of an id that was never created
\* fail with "Email does not exist" (no zero-valued record, no zero handle);
\* of a created id they succeed and return the stored record and handle.
C18_ReadsOfAbsentIdsFail ==
    \A id \in Ids :
        LET data == staticCall("getEmailData", <<id>>)
            content == staticCall("getEncryptedContent", <<id>>)
        IN  IF WasCreated(id)
            THEN /\ data.ok
                 /\ data.sender \in Accounts
                 /\ data.timestamp \in 1..now
                 /\ content.ok
                 /\ content.value \in Handles
                 /\ content.value = emailRegistry[id].encryptedContent
            ELSE /\ data = [ok |-> FALSE, error |-> "Email does not exist"]
                 /\ content = [ok |-> FALSE, error |-> "Email does not exist"]

C18_Witness ==
    \E a, b \in Ids :
        /\ WasCreated(a) /\ ~WasCreated(b)
        /\ getEmailData(a).ok /\ getEmailData(a).isVerified
        /\ ~getEmailData(b).ok /\ ~getEncryptedContent(b).ok
        /\ lastCall = receipt("verifySpamStatus", b, "Email does not exist")

\* C19: a workflow failure carries its kind.  A decryptData run that failed on
\* an id without a record (and not for the lack of a wallet provider or of the
\* decryption service) failed with the ledger's not-found error, and the
\* banner shows that error.
C19_FailureKindPreserved ==
    \A c \in Clients :
        ( /\ disclose[c].pc = "Failed"
          /\ ~Exists(disclose[c].id)
          /\ disclose[c].error \notin {"no contract", "decryption request failed"} )
        => /\ disclose[c].error = "Email does not exist"
           /\ transactionStatus[c] =
                    Status("error", "Decryption failed: ", "Email does not exist")

\* C20: the event log matches the committed transitions.  A successful
\* processEmail appends one EmailProcessed event with the id and the creator, a
\* successful verifySpamStatus appends one SpamVerification event with the id
\* and the committed flag and score, and no other step touches the log; so an
\* id has at most one event of each kind, and its verification event comes
\* after its creation event.
C20_EventsMatchTransitions ==
    /\ [][LET id == lastCall'.emailId
              ok == CallStep /\ lastCall'.result = "ok"
              last == events'[Len(events')]
          IN  IF ok /\ lastCall'.fn = "processEmail"
              THEN /\ Len(events') = Len(events) + 1
                   /\ SubSeq(events', 1, Len(events)) = events
                   /\ last.name = "EmailProcessed"
                   /\ last.emailId = id
                   /\ last.sender = emailRegistry'[id].sender
                   /\ ~Exists(id) /\ emailRegistry'[id].sender # ZeroAddress
              ELSE IF ok /\ lastCall'.fn = "verifySpamStatus"
              THEN /\ Len(events') = Len(events) + 1
                   /\ SubSeq(events', 1, Len(events)) = events
                   /\ last.name = "SpamVerification"
                   /\ last.emailId = id
                   /\ last.isSpam = emailRegistry'[id].isSpam
                   /\ last.decryptedScore = emailRegistry'[id].decryptedScore
                   /\ ~emailRegistry[id].isVerified /\ emailRegistry'[id].isVerified
              ELSE events' = events]_vars
    /\ [](\A id \in Ids :
            /\ Cardinality(EventsOf("EmailProcessed", id)) <= 1
            /\ Cardinality(EventsOf("SpamVerification", id)) <= 1
            /\ \A v \in EventsOf("SpamVerification", id) :
                    \E p \in EventsOf("EmailProcessed", id) : p < v)

C20_Witness ==
    /\ Len(events) = 3
    /\ events[1].name = "EmailProcessed"
    /\ events[3].name = "SpamVerification"
    /\ events[3].emailId = events[1].emailId
    /\ events[3].isSpam
    /\ events[3].decryptedScore = 57
    /\ events[2].name = "EmailProcessed"
    /\ lastCall.fn = "verifySpamStatus"
    /\ lastCall.result = "InvalidKMSSignatures"

\* C21: the fast path.  When decryptData fetches the record (a contract was
\* obtained) and the record is verified, that step ends the run Committed with
\* the stored decryptedScore as the returned value, and sends nothing to the
\* ledger.
C21_FastPath ==
    [][\A c \in Clients, id \in Ids :
        ( /\ disclose[c].pc = "FetchingRecord"
          /\ disclose[c].id = id
          /\ emailRegistry[id].isVerified
          /\ decryptData(c, id)
          /\ disclose'[c].error # "no contract" )
        => /\ disclose'[c].pc = "Committed"
           /\ disclose'[c].returned = emailRegistry[id].decryptedScore
           /\ UNCHANGED chain]_vars

\* The order of the positions of createEmail: a new run starts from rest; the
\* signer is obtained, then the gateway encrypts, then the create is sent, then
\* its confirmation is awaited; each of these may fail.
SubmitOrder ==
    ({"Idle", "Committed", "Failed"} \X {"Started"})
        \cup {<<"Started", "Encrypting">>, <<"Encrypting", "Submitting">>,
              <<"Submitting", "Confirming">>, <<"Confirming", "Committed">>}
        \cup ({"Started", "Encrypting", "Submitting"} \X {"Failed"})

\* C22: createEmail moves through its positions in order; the create is sent
\* to the ledger only from Submitting, with the handle and proof the gateway
\* returned, and never after a failed encryption; success is reported only by
\* the step that follows the confirmation of the create; a run that has ended
\* is in exactly one of Committed and Failed, Failed carrying an error and
\* Committed none.
C22_SubmitOrdering ==
    /\ [][\A c \in Clients :
            LET p == submit[c].pc
                q == submit'[c].pc
            IN  /\ p # q => <<p, q>> \in SubmitOrder
                /\ (submit'[c].invoked /\ ~submit[c].invoked)
                        => (p = "Submitting" /\ submit[c].handle \in Handles)
                /\ (p \in {"Started", "Encrypting"} /\ q = "Failed")
                        => (~submit'[c].invoked /\ UNCHANGED chain)
                /\ ((\E e \in Clients : createEmail(e)) /\ ~(UNCHANGED chain))
                        => \E e \in Clients : submit[e].pc = "Submitting"
                /\ (transactionStatus'[c].status = "success"
                        /\ transactionStatus[c].status # "success")
                        => (p = "Confirming" /\ q = "Committed")]_vars
    /\ [](\A c \in Clients :
            /\ submit[c].pc = "Failed" => submit[c].error # "none"
            /\ submit[c].pc = "Committed" => (submit[c].error = "none" /\ submit[c].invoked)
            /\ submit[c].pc \in {"Submitting", "Confirming"} => submit[c].handle \in Handles
            /\ submit[c].pc \in {"Idle", "Started", "Encrypting"} => ~submit[c].invoked)

C22_Witness ==
    \E c1, c2 \in Clients :
        /\ submit[c1].pc = "Failed" /\ submit[c1].invoked /\ submit[c1].handle \in Handles
        /\ submit[c2].pc = "Failed" /\ submit[c2].error = "encryption failed"
        /\ ~submit[c2].invoked

Occurrences(id) == {i \in 1..Len(emailIds) : emailIds[i] = id}

\* C24: an id passes the existence test (a sender is stored for it) if and
\* only if it occurs in emailIds, and then it occurs exactly once; the length
\* of emailIds is the number of successful processEmail calls.
C24_MembershipConsistent ==
    /\ \A id \in Ids :
            Cardinality(Occurrences(id)) = (IF Exists(id) THEN 1 ELSE 0)
    /\ \A i \in 1..Len(emailIds) : emailIds[i] \in Ids
    /\ Len(emailIds) = Cardinality({i \in 1..Len(events) : events[i].name = "EmailProcessed"})
    /\ \A id \in Ids :
            ~Exists(id) => emailRegistry[id] = EmptyEmailData

C24_Witness ==
    /\ Len(emailIds) = 1
    /\ Exists(emailIds[1])
    /\ lastCall.fn = "processEmail"
    /\ lastCall.result = "InvalidInputProof"
    /\ ~Exists(lastCall.emailId)
    /\ Len(events) = 2

\* The disclosure of the record's single handle: one cleartext scalar for the
\* one listed handle.
GenuineDisclosure(id) == <<Word(Plain(emailRegistry[id].encryptedContent))>>

\* C25: for every record that exists and is unverified, verifySpamStatus with
\* the genuine disclosure of the stored handle, signed by the decryption
\* service for that handle, succeeds.
C25_VerificationReachable ==
    \A id \in Ids :
        (Exists(id) /\ ~emailRegistry[id].isVerified)
            => /\ ProofAvailable(SignedFor(id, GenuineDisclosure(id)))
               /\ verifySpamStatusOutcome(id, GenuineDisclosure(id),
                        SignedFor(id, GenuineDisclosure(id))) = "ok"

\* C26: the client and the ledger agree on the interface: no client workflow
\* fails because the contract lacks the function the workflow calls.
C26_InterfaceAgreement ==
    \A c \in Clients :
        /\ submit[c].error # "no such function"
        /\ disclose[c].error # "no such function"

\* C27: a processEmail call whose encrypted input fails the inclusion-proof or
\* the initialisation check is rejected and stores nothing, appends nothing
\* and logs nothing; and whatever was rejected before, an id without a record
\* still accepts a processEmail from any caller with an input that caller
\* encrypted for this contract.
C27_RejectedCreationLeavesNoTrace ==
    /\ [](\A id \in Ids :
            ~Exists(id)
                => \A caller \in Accounts, h \in ExternalHandles, proof \in InputProofs :
                        LET outcome == processEmailOutcome(caller, id, h, proof)
                        IN  IF proof.handle # h \/ proof.user # caller \/ proof.ctx # "this"
                            THEN outcome = "InvalidInputProof"
                            ELSE IF h = 0
                            THEN outcome = "Invalid encrypted content"
                            ELSE outcome = "ok")
    /\ [][(CallStep /\ lastCall'.fn = "processEmail"
                /\ lastCall'.result \in {"InvalidInputProof", "Invalid encrypted content"})
            => UNCHANGED <<ledger, disclosure>>]_vars

C27_Witness ==
    /\ lastCall.fn = "processEmail"
    /\ lastCall.result = "Invalid encrypted content"
    /\ ~Exists(lastCall.emailId)
    /\ emailRegistry[lastCall.emailId] = EmptyEmailData
    /\ Len(emailIds) = 1
    /\ Len(events) = 1

\* C28: verification does not depend on who calls.  A step in which a
\* verifySpamStatus call verifies a record is the step that call takes from
\* every account, the record's sender or not: same receipt, same record, same
\* event.
C28_CallerIndependent ==
    [][\A id \in Ids :
        (CallTo("verifySpamStatus", id) /\ lastCall'.result = "ok")
            => \A caller \in Accounts :
                    verifySpamStatus(caller, id, disclosure'[id].data, disclosure'[id].proof)]_vars

C28_Witness ==
    \E id \in Ids :
        /\ lastCall = receipt("verifySpamStatus", id, "ok")
        /\ emailRegistry[id].isVerified
        /\ emailRegistry[id].sender = 1
        /\ emailRegistry[id].decryptedScore = 0
        /\ ~emailRegistry[id].isSpam

SubmitRunning == {"Started", "Encrypting", "Submitting", "Confirming"}
DiscloseRunning == {"FetchingRecord", "FetchingHandle", "AwaitingExternalProof"}

\* C29: the busy flags are set exactly while a run is under way: creatingEmail
\* is false whenever createEmail is at rest or has ended (Committed, Failed, or
\* refused for a missing wallet) and isDecrypting likewise for decryptData; a
\* run under way always has a next step, and a client whose run has ended can
\* start another one.
C29_BusyFlagsClear ==
    \A c \in Clients :
        /\ creatingEmail[c] <=> submit[c].pc \in SubmitRunning
        /\ isDecrypting[c] <=> disclose[c].pc \in DiscloseRunning
        /\ ENABLED createEmail(c)
        /\ ENABLED decryptData(c, IF disclose[c].pc \in DiscloseRunning
                                  THEN disclose[c].id ELSE 1)

C29_Witness ==
    \E c1, c2 \in Clients :
        /\ submit[c1].pc = "Failed" /\ submit[c1].invoked /\ ~creatingEmail[c1]
        /\ disclose[c1].pc = "Failed" /\ disclose[c1].error = "no contract"
        /\ ~isDecrypting[c1]
        /\ ~isConnected[c2]
        /\ transactionStatus[c2] = Status("error", "Please connect wallet first", "")
        /\ ~creatingEmail[c2] /\ ~isDecrypting[c2]

====
